---- MODULE Spec2Model ----
(***************************************************************************)
(* The AST-to-bytecode compiler of pine (compiler/src/lib.rs) as a state   *)
(* machine.  The Compiler's fields are the state; the recursive descent of *)
(* compile / compile_statement / compile_expression is run on an explicit  *)
(* call stack, one action per step between two recursive calls, so that    *)
(* every intermediate stream (after each emission, operand patch and       *)
(* retraction) is a state of the model.                                    *)
(***************************************************************************)
EXTENDS Integers, Sequences, FiniteSets

VARIABLES
    instructions,           \* Compiler.instructions: the byte stream (0-based offsets in the code)
    constants,              \* Compiler.constants: the constant pool
    last_instruction,       \* Compiler.last_instruction: <<>> (None) or <<record>> (Some)
    previous_instruction,   \* Compiler.previous_instruction
    stack,                  \* the call stack of the running compile call, innermost frame first
    call,                   \* the running or most recent compile call: its node, start state, outcome
    history,                \* the compile calls completed before `call`
    fresh,                  \* the Compiler is as Compiler::new() made it: compile was not called on it
    iflog,                  \* the conditionals the running call has finished compiling
    emitted                 \* the expressions and statements the running call has finished compiling

vars == <<instructions, constants, last_instruction, previous_instruction,
          stack, call, history, fresh, iflog, emitted>>

compiler == <<instructions, constants, last_instruction, previous_instruction>>

(***************************************************************************)
(* Bounds of the model.                                                    *)
(***************************************************************************)
MaxInt == 2         \* integer literals are 1..MaxInt
MaxBlockLen == 2    \* statements per block / program
MaxDepth == 2       \* nesting depth of conditionals
MaxCalls == 2       \* compile calls per behaviour

(***************************************************************************)
(* The AST (parser/src/ast.rs).                                            *)
(***************************************************************************)
IntegerLiteral(n) == [kind |-> "Literal", literal |-> "Integer", value |-> n]
BooleanLiteral(b) == [kind |-> "Literal", literal |-> "Boolean", truth |-> b]
OtherLiteral(l) == [kind |-> "Literal", literal |-> l]
OtherExpression(k) == [kind |-> k]
PrefixExpression(op, r) == [kind |-> "Prefix", operator |-> op, right |-> r]
InfixExpression(op, l, r) == [kind |-> "Infix", operator |-> op, left |-> l, right |-> r]
IfExpression(c, cons, alt) ==
    [kind |-> "If", condition |-> c, consequence |-> cons, alternative |-> alt]
None == <<>>
Some(x) == <<x>>

ExprStatement(e) == [kind |-> "Expr", expression |-> e]
ReturnStatement(e) == [kind |-> "Return", return_value |-> e]
Assignment == [kind |-> "Assign"]

ProgramNode(ss) == [kind |-> "Program", statements |-> ss]
StatementNode(s) == [kind |-> "Statement", statement |-> s]
ExpressionNode(e) == [kind |-> "Expression", expression |-> e]

LiteralKinds == {"Float", "String", "Array"}
ExpressionKinds == {"Identifier", "Function", "Call", "Index"}
PrefixOperators == {"!", "-", "~"}
InfixOperators == {"+", "-", "*", "/", ">", "<", "==", "!=", "%"}

(***************************************************************************)
(* Instruction encoding (crate opcode).                                    *)
(***************************************************************************)
\* the closed enumeration of opcodes, in the order of their byte values
Opcodes ==
    <<"OpConst", "OpPop", "OpAdd", "OpSub", "OpMul", "OpDiv", "OpGreaterThan",
      "OpEqual", "OpNotEqual", "OpTrue", "OpFalse", "OpMinus", "OpBang",
      "OpJump", "OpJumpNotTruthy">>

\* `op as u8`: the byte of an opcode
OpcodeByte(op) == CHOOSE b \in 0..(Len(Opcodes) - 1) : Opcodes[b + 1] = op

\* Opcode::from(u8): the opcode of a byte
OpcodeFrom(byte) == IF byte < Len(Opcodes) THEN Opcodes[byte + 1] ELSE "OpUnknown"

\* the operand widths of an opcode, in bytes
OperandWidths(op) ==
    IF op \in {"OpConst", "OpJump", "OpJumpNotTruthy"} THEN <<2>> ELSE <<>>

\* the width of a whole instruction
InstructionWidth(op) ==
    1 + (IF OperandWidths(op) = <<>> THEN 0 ELSE OperandWidths(op)[1])

\* an operand as two big-endian bytes
BigEndian(operand) == <<(operand \div 256) % 256, operand % 256>>

\* opcode::make: the opcode byte followed by its operands
make(op, operands) ==
    IF OperandWidths(op) = <<>>
    THEN <<OpcodeByte(op)>>
    ELSE <<OpcodeByte(op)>> \o BigEndian(operands[1])

\* the operand of the instruction that starts at the 0-based offset `position`
ReadOperand(ins, position) == ins[position + 2] * 256 + ins[position + 3]

\* the dummy operand of a jump whose target is not known yet
Placeholder == 9999

(***************************************************************************)
(* Compiler: the helpers of compiler/src/lib.rs.                           *)
(***************************************************************************)
\* object::Object::Integer(value)
Integer(value) == [type |-> "Integer", value |-> value]

\* Compiler::new(): the four fields of a new Compiler
IsNew ==
    /\ instructions = <<>>
    /\ constants = <<>>
    /\ last_instruction = None
    /\ previous_instruction = None

\* variant of the code: the Bytecode is given the Compiler's buffers, not clones
bytecode_Shared ==
    [instructions |-> instructions, constants |-> constants, shared |-> TRUE]

\* Compiler::bytecode(): clones of the stream and the pool
bytecode == [instructions |-> instructions, constants |-> constants]

\* variant of the code: a value that is in the pool is not added again
add_constant_Deduplicated(pool, obj) ==
    IF \E k \in 1..Len(pool) : pool[k] = obj THEN pool ELSE Append(pool, obj)

\* Compiler::add_constant: the pool after the push (the index returned is its length - 1)
add_constant(pool, obj) == Append(pool, obj)

\* Compiler::add_instructions: the stream after the extend (the position returned is the old length)
add_instructions(ins, new) == ins \o new

\* variant of the code: the stream is cut after the bytes written
replace_instruction_Truncating(ins, position, new) ==
    SubSeq(ins, 1, position) \o new

\* Compiler::replace_instruction: overwrite Len(new) bytes from `position`
replace_instruction(ins, position, new) ==
    [k \in 1..Len(ins) |->
        IF k - 1 >= position /\ k - 1 < position + Len(new)
        THEN new[k - position]
        ELSE ins[k]]

\* variant of the code: the new operand is not written
change_operand_NotWritten(ins, position, operand) == ins

\* Compiler::change_operand: re-encode the instruction at `position` with a new operand
change_operand(ins, position, operand) ==
    replace_instruction(ins, position,
                        make(OpcodeFrom(ins[position + 1]), <<operand>>))

\* variant of the code: the previous record is not updated
set_last_instruction_KeepsPrevious(op, position) ==
    /\ UNCHANGED previous_instruction
    /\ last_instruction' = Some([opcode |-> op, position |-> position])

\* Compiler::set_last_instruction
set_last_instruction(op, position) ==
    /\ previous_instruction' = last_instruction
    /\ last_instruction' = Some([opcode |-> op, position |-> position])

\* Compiler::emit: append the instruction and record it as the last one
emit(op, operands) ==
    /\ instructions' = add_instructions(instructions, make(op, operands))
    /\ set_last_instruction(op, Len(instructions))

\* variant of the code: the record before the last one is looked at
last_instruction_is_Previous(op) ==
    /\ previous_instruction # None
    /\ previous_instruction[1].opcode = op

\* Compiler::last_instruction_is
last_instruction_is(op) ==
    /\ last_instruction # None
    /\ last_instruction[1].opcode = op

\* variant of the code: the byte is removed and the last record is left as it is
remove_last_pop_KeepsLast ==
    /\ instructions' = SubSeq(instructions, 1, Len(instructions) - 1)
    /\ UNCHANGED <<last_instruction, previous_instruction>>

\* Compiler::remove_last_pop: drop the last byte, restore the previous record
remove_last_pop ==
    /\ instructions' = SubSeq(instructions, 1, Len(instructions) - 1)
    /\ last_instruction' = previous_instruction
    /\ UNCHANGED previous_instruction

\* variant of the code: the right operand is always compiled first
OperandOrder_RightFirst(operator, left, right) == <<right, left>>

\* variant of the code: the operands of `<` are not swapped
OperandOrder_LeftFirst(operator, left, right) == <<left, right>>

\* compile_operands: the order in which the two operands are compiled
OperandOrder(operator, left, right) ==
    IF operator = "<" THEN <<right, left>> ELSE <<left, right>>

\* compile_expression, Infix: the opcode of an operator
InfixOpcode(operator) ==
    CASE operator = "+" -> "OpAdd"
      [] operator = "-" -> "OpSub"
      [] operator = "*" -> "OpMul"
      [] operator = "/" -> "OpDiv"
      [] operator \in {">", "<"} -> "OpGreaterThan"
      [] operator = "==" -> "OpEqual"
      [] operator = "!=" -> "OpNotEqual"
      [] OTHER -> "unimplemented"

\* compile_expression, Prefix: the opcode of an operator
PrefixOpcode(operator) ==
    CASE operator = "!" -> "OpBang"
      [] operator = "-" -> "OpMinus"
      [] OTHER -> "unimplemented"

(***************************************************************************)
(* The ASTs handed to compile: a bounded part of what the parser can build.*)
(***************************************************************************)
RECURSIVE Blocks(_, _)
\* the sequences of at most n statements of S
Blocks(S, n) ==
    IF n = 0
    THEN {<<>>}
    ELSE LET shorter == Blocks(S, n - 1)
         IN  shorter \cup {Append(b, st) : b \in shorter, st \in S}

One == IntegerLiteral(1)
Two == IntegerLiteral(2)
True == BooleanLiteral(TRUE)
Identifier == OtherExpression("Identifier")

Ints == {IntegerLiteral(n) : n \in 1..MaxInt}
Atoms == Ints \cup {BooleanLiteral(TRUE), BooleanLiteral(FALSE)}
Unsupported ==
    {OtherLiteral(l) : l \in LiteralKinds} \cup {OtherExpression(k) : k \in ExpressionKinds}

\* operator expressions over leaves
Args == Ints \cup {True, Identifier}
Operators1 ==
    {PrefixExpression(op, a) : op \in PrefixOperators, a \in Args}
        \cup {InfixExpression(op, l, r) : op \in InfixOperators, l \in Args, r \in Args}

\* operator expressions over compound operands
Sub ==
    {One,
     PrefixExpression("-", One),
     InfixExpression("<", One, True),
     IfExpression(True, <<ExprStatement(One)>>, None),
     IfExpression(True, <<ExprStatement(One)>>, Some(<<ExprStatement(True)>>))}
Operators2 ==
    {PrefixExpression("!", a) : a \in Sub}
        \cup {InfixExpression(op, l, r) : op \in {"+", "<"}, l \in Sub, r \in Sub}

\* conditionals over blocks of simple statements
BaseStatements == {ExprStatement(One), ReturnStatement(One), Assignment}
FlatIfs ==
    {IfExpression(True, c, a) :
        c \in Blocks(BaseStatements, MaxBlockLen),
        a \in {None} \cup {Some(b) : b \in Blocks(BaseStatements, 1)}}
    \cup
    {IfExpression(True, c, Some(b)) :
        c \in Blocks(BaseStatements, 1),
        b \in Blocks(BaseStatements, MaxBlockLen)}
CondIfs ==
    {IfExpression(c, <<ExprStatement(One)>>, None) :
        c \in Args \cup {InfixExpression(">", One, One)}}

\* conditionals inside conditionals
InnerStatements == {ExprStatement(One), ReturnStatement(One)}
InnerIfs ==
    {IfExpression(True, c, a) :
        c \in Blocks(InnerStatements, 1),
        a \in {None} \cup {Some(b) : b \in Blocks(InnerStatements, 1)}}
Wrap(x) ==
    {IfExpression(True, <<ExprStatement(x)>>, None),
     IfExpression(True, <<ReturnStatement(x)>>, None),
     IfExpression(True, <<ExprStatement(One)>>, Some(<<ExprStatement(x)>>)),
     IfExpression(True, <<ExprStatement(x), ReturnStatement(Two)>>,
                  Some(<<ReturnStatement(x)>>)),
     IfExpression(x, <<ExprStatement(One)>>, None)}
RECURSIVE Nested(_)
Nested(d) ==
    IF d <= 1
    THEN InnerIfs
    ELSE LET inner == Nested(d - 1)
         IN  inner \cup UNION {Wrap(x) : x \in inner}

Expressions ==
    Atoms \cup Unsupported \cup Operators1 \cup Operators2
        \cup FlatIfs \cup CondIfs \cup Nested(MaxDepth)

Statements ==
    {Assignment}
        \cup {ExprStatement(e) : e \in Atoms \cup Unsupported \cup Sub}
        \cup {ReturnStatement(e) : e \in Atoms \cup Unsupported \cup Sub}

ProgramStatements ==
    {ExprStatement(InfixExpression("+", One, Two)),
     ExprStatement(True),
     ReturnStatement(One),
     Assignment,
     ExprStatement(IfExpression(True, <<ExprStatement(One)>>, Some(<<ExprStatement(One)>>)))}

Nodes ==
    {ExpressionNode(e) : e \in Expressions}
        \cup {StatementNode(st) : st \in Statements}
        \cup {ProgramNode(ss) : ss \in Blocks(ProgramStatements, MaxBlockLen)}

\* the nodes a later call of a behaviour compiles: the same node again, `b > a`
\* after `a < b`, and the expression of a statement on its own
Probes(node) ==
    {node}
    \cup (IF /\ node.kind = "Expression"
             /\ node.expression.kind = "Infix"
             /\ node.expression.operator = "<"
          THEN {ExpressionNode(InfixExpression(">", node.expression.right,
                                               node.expression.left))}
          ELSE {})
    \cup (IF node.kind = "Statement" /\ node.statement.kind = "Expr"
          THEN {ExpressionNode(node.statement.expression)}
          ELSE {})
    \cup (IF node.kind = "Statement" /\ node.statement.kind = "Return"
          THEN {ExpressionNode(node.statement.return_value)}
          ELSE {})

(***************************************************************************)
(* The call stack.                                                         *)
(***************************************************************************)
\* a frame of fn(node) entered now: pc and i are its position, jnt_position and
\* j_position the locals of the If arm, start the stream length on entry
Frame(fn, node) ==
    [fn |-> fn, node |-> node, pc |-> 0, i |-> 1,
     jnt_position |-> 0, j_position |-> 0, start |-> Len(instructions)]

BlockStatement(ss) == [kind |-> "Block", statements |-> ss]

top == Head(stack)
At(fn, pc) == stack # <<>> /\ top.fn = fn /\ top.pc = pc
AtExpression(kind, pc) == At("compile_expression", pc) /\ top.node.kind = kind

\* call fn(node) and continue the caller at pc once it has returned
Invoke(fn, node, pc) ==
    stack' = <<Frame(fn, node), [top EXCEPT !.pc = pc]>> \o Tail(stack)
Goto(frame) == stack' = <<frame>> \o Tail(stack)
Return == stack' = Tail(stack)

\* the record of a statement or expression whose compilation ends with stream `ins`
Done(ins) ==
    emitted' = Append(emitted, [node |-> top.node, start |-> top.start,
                                end |-> Len(ins), depth |-> Len(stack)])

\* `?`: the error of a callee is returned by every caller up to compile
Fail ==
    /\ stack' = <<>>
    /\ call' = [call EXCEPT !.status = "Err"]
    /\ UNCHANGED <<compiler, history, fresh, iflog, emitted>>

(***************************************************************************)
(* Compiler::new and Compiler::compile.                                    *)
(***************************************************************************)
NoCall == [status |-> "none"]
Calls == Len(history) + (IF call.status = "none" THEN 0 ELSE 1)

Init ==
    /\ instructions = <<>>
    /\ constants = <<>>
    /\ last_instruction = None
    /\ previous_instruction = None
    /\ stack = <<>>
    /\ call = NoCall
    /\ history = <<>>
    /\ fresh = TRUE
    /\ iflog = <<>>
    /\ emitted = <<>>

\* variant of the code: the new Compiler is given the constant pool of the old one
New_KeepsConstants ==
    /\ stack = <<>>
    /\ ~fresh
    /\ Calls < MaxCalls
    /\ instructions' = <<>>
    /\ last_instruction' = None
    /\ previous_instruction' = None
    /\ fresh' = TRUE
    /\ UNCHANGED <<constants, stack, call, history, iflog, emitted>>

\* the caller drops the Compiler and makes a new one
New ==
    /\ stack = <<>>
    /\ ~fresh
    /\ Calls < MaxCalls
    /\ instructions' = <<>>
    /\ constants' = <<>>
    /\ last_instruction' = None
    /\ previous_instruction' = None
    /\ fresh' = TRUE
    /\ UNCHANGED <<stack, call, history, iflog, emitted>>

\* the caller calls compile(node)
Compile(node) ==
    /\ stack = <<>>
    /\ Calls < MaxCalls
    /\ stack' = <<Frame("compile", node)>>
    /\ call' = [node |-> node, fresh |-> fresh, before |-> bytecode,
                status |-> "running", returned |-> None, rendered |-> None]
    /\ history' = IF call.status = "none" THEN history ELSE Append(history, call)
    /\ fresh' = FALSE
    /\ iflog' = <<>>
    /\ emitted' = <<>>
    /\ UNCHANGED compiler

\* Node::Program: the next statement of the program
CompileProgram ==
    /\ At("compile", 0)
    /\ top.node.kind = "Program"
    /\ top.i <= Len(top.node.statements)
    /\ stack' = <<Frame("compile_statement", top.node.statements[top.i]),
                  [top EXCEPT !.i = @ + 1]>> \o Tail(stack)
    /\ UNCHANGED <<compiler, call, history, fresh, iflog, emitted>>

\* Node::Statement
CompileStatement ==
    /\ At("compile", 0)
    /\ top.node.kind = "Statement"
    /\ Invoke("compile_statement", top.node.statement, 1)
    /\ UNCHANGED <<compiler, call, history, fresh, iflog, emitted>>

\* Node::Expression
CompileExpression ==
    /\ At("compile", 0)
    /\ top.node.kind = "Expression"
    /\ Invoke("compile_expression", top.node.expression, 1)
    /\ UNCHANGED <<compiler, call, history, fresh, iflog, emitted>>

\* return Ok(self.bytecode())
CompileOk ==
    /\ \/ At("compile", 0) /\ top.node.kind = "Program"
                           /\ top.i > Len(top.node.statements)
       \/ At("compile", 1)
    /\ stack' = <<>>
    /\ call' = [call EXCEPT !.status = "Ok", !.returned = Some(bytecode)]
    /\ UNCHANGED <<compiler, history, fresh, iflog, emitted>>

(***************************************************************************)
(* impl Debug for Bytecode.                                                *)
(***************************************************************************)
RECURSIVE Digits(_)
\* the decimal digits of a natural number
Digits(n) == IF n < 10 THEN <<n>> ELSE Digits(n \div 10) \o <<n % 10>>

\* format!("{:04}", i): the digits of i, padded with zeros to four
Pad4(i) ==
    IF Len(Digits(i)) >= 4
    THEN Digits(i)
    ELSE [k \in 1..(4 - Len(Digits(i))) |-> 0] \o Digits(i)

\* fmt: for (i, instruction) in self.instructions.0.iter().enumerate(), the
\* line "{:04} {}" of i and Opcode::from(*instruction)
fmt(b) ==
    [k \in 1..Len(b.instructions) |->
        [offset |-> Pad4(k - 1), mnemonic |-> OpcodeFrom(b.instructions[k])]]

\* the caller formats the Bytecode a successful compile has returned
FormatDebug ==
    /\ stack = <<>>
    /\ call.status = "Ok"
    /\ call.rendered = None
    /\ call' = [call EXCEPT !.rendered = Some(fmt(call.returned[1]))]
    /\ UNCHANGED <<compiler, stack, history, fresh, iflog, emitted>>

(***************************************************************************)
(* Compiler::compile_block_statement.                                      *)
(***************************************************************************)
BlockNext ==
    /\ At("compile_block_statement", 0)
    /\ top.i <= Len(top.node.statements)
    /\ stack' = <<Frame("compile_statement", top.node.statements[top.i]),
                  [top EXCEPT !.i = @ + 1]>> \o Tail(stack)
    /\ UNCHANGED <<compiler, call, history, fresh, iflog, emitted>>

BlockOk ==
    /\ At("compile_block_statement", 0)
    /\ top.i > Len(top.node.statements)
    /\ Return
    /\ UNCHANGED <<compiler, call, history, fresh, iflog, emitted>>

(***************************************************************************)
(* Compiler::compile_statement.                                            *)
(***************************************************************************)
StatementReturn ==
    /\ At("compile_statement", 0)
    /\ top.node.kind = "Return"
    /\ Invoke("compile_expression", top.node.return_value, 1)
    /\ UNCHANGED <<compiler, call, history, fresh, iflog, emitted>>

\* variant of the code: the value of a return statement is popped like that of an expression statement
StatementReturnOk_Pop ==
    /\ At("compile_statement", 1)
    /\ top.node.kind = "Return"
    /\ emit("OpPop", <<>>)
    /\ Return
    /\ Done(instructions')
    /\ UNCHANGED <<constants, call, history, fresh, iflog>>

\* Statement::Return: nothing is emitted after the value
StatementReturnOk ==
    /\ At("compile_statement", 1)
    /\ top.node.kind = "Return"
    /\ Return
    /\ Done(instructions)
    /\ UNCHANGED <<compiler, call, history, fresh, iflog>>

StatementExpr ==
    /\ At("compile_statement", 0)
    /\ top.node.kind = "Expr"
    /\ Invoke("compile_expression", top.node.expression, 1)
    /\ UNCHANGED <<compiler, call, history, fresh, iflog, emitted>>

\* Statement::Expr: self.emit(Opcode::OpPop, vec![])
StatementPop ==
    /\ At("compile_statement", 1)
    /\ top.node.kind = "Expr"
    /\ emit("OpPop", <<>>)
    /\ Return
    /\ Done(instructions')
    /\ UNCHANGED <<constants, call, history, fresh, iflog>>

StatementUnimplemented ==
    /\ At("compile_statement", 0)
    /\ top.node.kind \notin {"Return", "Expr"}
    /\ Fail

(***************************************************************************)
(* Compiler::compile_operands.                                             *)
(***************************************************************************)
Operands(e) == OperandOrder(e.operator, e.left, e.right)

OperandsFirst ==
    /\ At("compile_operands", 0)
    /\ Invoke("compile_expression", Operands(top.node)[1], 1)
    /\ UNCHANGED <<compiler, call, history, fresh, iflog, emitted>>

OperandsSecond ==
    /\ At("compile_operands", 1)
    /\ Invoke("compile_expression", Operands(top.node)[2], 2)
    /\ UNCHANGED <<compiler, call, history, fresh, iflog, emitted>>

OperandsOk ==
    /\ At("compile_operands", 2)
    /\ Return
    /\ UNCHANGED <<compiler, call, history, fresh, iflog, emitted>>

(***************************************************************************)
(* Compiler::compile_expression, Expression::If.                           *)
(***************************************************************************)
IfCondition ==
    /\ AtExpression("If", 0)
    /\ Invoke("compile_expression", top.node.condition, 1)
    /\ UNCHANGED <<compiler, call, history, fresh, iflog, emitted>>

\* let jnt_position = self.emit(Opcode::OpJumpNotTruthy, vec![9999])
IfJumpNotTruthy ==
    /\ AtExpression("If", 1)
    /\ emit("OpJumpNotTruthy", <<Placeholder>>)
    /\ Goto([top EXCEPT !.pc = 2, !.jnt_position = Len(instructions)])
    /\ UNCHANGED <<constants, call, history, fresh, iflog, emitted>>

IfConsequence ==
    /\ AtExpression("If", 2)
    /\ Invoke("compile_block_statement", BlockStatement(top.node.consequence), 3)
    /\ UNCHANGED <<compiler, call, history, fresh, iflog, emitted>>

\* variant of the code: the last byte is removed whatever the last instruction is
RemovePop_Always == remove_last_pop

\* variant of the code: the pop that ends a block is left in the stream
RemovePop_Never == UNCHANGED <<instructions, last_instruction, previous_instruction>>

\* if self.last_instruction_is(Opcode::OpPop) { self.remove_last_pop(); }
RemovePop ==
    IF last_instruction_is("OpPop")
    THEN remove_last_pop
    ELSE UNCHANGED <<instructions, last_instruction, previous_instruction>>

IfConsequencePop ==
    /\ AtExpression("If", 3)
    /\ RemovePop
    /\ Goto([top EXCEPT !.pc = 4])
    /\ UNCHANGED <<constants, call, history, fresh, iflog, emitted>>

\* let j_position = self.emit(Opcode::OpJump, vec![9999])
IfJump ==
    /\ AtExpression("If", 4)
    /\ emit("OpJump", <<Placeholder>>)
    /\ Goto([top EXCEPT !.pc = 5, !.j_position = Len(instructions)])
    /\ UNCHANGED <<constants, call, history, fresh, iflog, emitted>>

\* variant of the code: the operand is written before the jump is counted: the jump's own offset
IfPatchJumpNotTruthy_BeforeJump ==
    /\ AtExpression("If", 5)
    /\ instructions' = change_operand(instructions, top.jnt_position, top.j_position)
    /\ Goto([top EXCEPT !.pc = 6])
    /\ UNCHANGED <<constants, last_instruction, previous_instruction,
                   call, history, fresh, iflog, emitted>>

\* self.change_operand(jnt_position, after_consequence_position)
IfPatchJumpNotTruthy ==
    /\ AtExpression("If", 5)
    /\ instructions' = change_operand(instructions, top.jnt_position, Len(instructions))
    /\ Goto([top EXCEPT !.pc = 6])
    /\ UNCHANGED <<constants, last_instruction, previous_instruction,
                   call, history, fresh, iflog, emitted>>

\* alternative.is_none(): the operand of the jump-if-not-truthy is written again
IfNoAlternative ==
    /\ AtExpression("If", 6)
    /\ top.node.alternative = None
    /\ instructions' = change_operand(instructions, top.jnt_position, Len(instructions))
    /\ Goto([top EXCEPT !.pc = 8])
    /\ UNCHANGED <<constants, last_instruction, previous_instruction,
                   call, history, fresh, iflog, emitted>>

IfAlternative ==
    /\ AtExpression("If", 6)
    /\ top.node.alternative # None
    /\ Invoke("compile_block_statement", BlockStatement(top.node.alternative[1]), 7)
    /\ UNCHANGED <<compiler, call, history, fresh, iflog, emitted>>

IfAlternativePop ==
    /\ AtExpression("If", 7)
    /\ RemovePop
    /\ Goto([top EXCEPT !.pc = 8])
    /\ UNCHANGED <<constants, call, history, fresh, iflog, emitted>>

\* variant of the code: the jump is patched only when an alternative was compiled
IfPatchJump_OnlyWithAlternative ==
    /\ AtExpression("If", 8)
    /\ instructions' = IF top.node.alternative = None
                       THEN instructions
                       ELSE change_operand(instructions, top.j_position, Len(instructions))
    /\ Return
    /\ Done(instructions')
    /\ iflog' = Append(iflog, [node |-> top.node,
                               start |-> top.start,
                               jnt_position |-> top.jnt_position,
                               j_position |-> top.j_position,
                               end |-> Len(instructions)])
    /\ UNCHANGED <<constants, last_instruction, previous_instruction, call, history, fresh>>

\* self.change_operand(j_position, after_alternative_position); Ok(())
IfPatchJump ==
    /\ AtExpression("If", 8)
    /\ instructions' = change_operand(instructions, top.j_position, Len(instructions))
    /\ Return
    /\ Done(instructions')
    /\ iflog' = Append(iflog, [node |-> top.node,
                               start |-> top.start,
                               jnt_position |-> top.jnt_position,
                               j_position |-> top.j_position,
                               end |-> Len(instructions)])
    /\ UNCHANGED <<constants, last_instruction, previous_instruction, call, history, fresh>>

(***************************************************************************)
(* Compiler::compile_expression, Expression::Infix and Expression::Prefix. *)
(***************************************************************************)
InfixOperands ==
    /\ AtExpression("Infix", 0)
    /\ Invoke("compile_operands", top.node, 1)
    /\ UNCHANGED <<compiler, call, history, fresh, iflog, emitted>>

InfixEmit ==
    /\ AtExpression("Infix", 1)
    /\ InfixOpcode(top.node.operator) # "unimplemented"
    /\ emit(InfixOpcode(top.node.operator), <<>>)
    /\ Return
    /\ Done(instructions')
    /\ UNCHANGED <<constants, call, history, fresh, iflog>>

InfixUnimplemented ==
    /\ AtExpression("Infix", 1)
    /\ InfixOpcode(top.node.operator) = "unimplemented"
    /\ Fail

PrefixRight ==
    /\ AtExpression("Prefix", 0)
    /\ Invoke("compile_expression", top.node.right, 1)
    /\ UNCHANGED <<compiler, call, history, fresh, iflog, emitted>>

PrefixEmit ==
    /\ AtExpression("Prefix", 1)
    /\ PrefixOpcode(top.node.operator) # "unimplemented"
    /\ emit(PrefixOpcode(top.node.operator), <<>>)
    /\ Return
    /\ Done(instructions')
    /\ UNCHANGED <<constants, call, history, fresh, iflog>>

PrefixUnimplemented ==
    /\ AtExpression("Prefix", 1)
    /\ PrefixOpcode(top.node.operator) = "unimplemented"
    /\ Fail

(***************************************************************************)
(* Compiler::compile_expression, Expression::Literal and the other kinds.  *)
(***************************************************************************)
\* variant of the code: a boolean literal is pushed as a constant of the pool
LiteralBoolean_AsConstant ==
    /\ AtExpression("Literal", 0)
    /\ top.node.literal = "Boolean"
    /\ constants' = add_constant(constants, [type |-> "Boolean", value |-> top.node.truth])
    /\ emit("OpConst", <<Len(constants') - 1>>)
    /\ Return
    /\ Done(instructions')
    /\ UNCHANGED <<call, history, fresh, iflog>>

LiteralBoolean ==
    /\ AtExpression("Literal", 0)
    /\ top.node.literal = "Boolean"
    /\ emit(IF top.node.truth THEN "OpTrue" ELSE "OpFalse", <<>>)
    /\ Return
    /\ Done(instructions')
    /\ UNCHANGED <<constants, call, history, fresh, iflog>>

\* variant of the code: the operand is the length of the pool, one past the new entry
LiteralInteger_IndexPastEntry ==
    /\ AtExpression("Literal", 0)
    /\ top.node.literal = "Integer"
    /\ constants' = add_constant(constants, Integer(top.node.value))
    /\ emit("OpConst", <<Len(constants')>>)
    /\ Return
    /\ Done(instructions')
    /\ UNCHANGED <<call, history, fresh, iflog>>

\* let constant = self.add_constant(integer); self.emit(OpConst, vec![constant])
LiteralInteger ==
    /\ AtExpression("Literal", 0)
    /\ top.node.literal = "Integer"
    /\ constants' = add_constant(constants, Integer(top.node.value))
    /\ emit("OpConst", <<Len(constants') - 1>>)
    /\ Return
    /\ Done(instructions')
    /\ UNCHANGED <<call, history, fresh, iflog>>

LiteralUnimplemented ==
    /\ AtExpression("Literal", 0)
    /\ top.node.literal \notin {"Boolean", "Integer"}
    /\ Fail

\* variant of the code: an expression of another kind is skipped without an error
ExpressionUnimplemented_Skipped ==
    /\ At("compile_expression", 0)
    /\ top.node.kind \notin {"If", "Infix", "Prefix", "Literal"}
    /\ Return
    /\ UNCHANGED <<compiler, call, history, fresh, iflog, emitted>>

ExpressionUnimplemented ==
    /\ At("compile_expression", 0)
    /\ top.node.kind \notin {"If", "Infix", "Prefix", "Literal"}
    /\ Fail

(***************************************************************************)
(* The specification.                                                      *)
(***************************************************************************)
Next ==
    \/ New
    \/ \E node \in (IF call.status = "none" THEN Nodes ELSE Probes(call.node)) :
          Compile(node)
    \/ CompileProgram
    \/ CompileStatement
    \/ CompileExpression
    \/ CompileOk
    \/ FormatDebug
    \/ BlockNext
    \/ BlockOk
    \/ StatementReturn
    \/ StatementReturnOk
    \/ StatementExpr
    \/ StatementPop
    \/ StatementUnimplemented
    \/ OperandsFirst
    \/ OperandsSecond
    \/ OperandsOk
    \/ IfCondition
    \/ IfJumpNotTruthy
    \/ IfConsequence
    \/ IfConsequencePop
    \/ IfJump
    \/ IfPatchJumpNotTruthy
    \/ IfNoAlternative
    \/ IfAlternative
    \/ IfAlternativePop
    \/ IfPatchJump
    \/ InfixOperands
    \/ InfixEmit
    \/ InfixUnimplemented
    \/ PrefixRight
    \/ PrefixEmit
    \/ PrefixUnimplemented
    \/ LiteralBoolean
    \/ LiteralInteger
    \/ LiteralUnimplemented
    \/ ExpressionUnimplemented

Spec == Init /\ [][Next]_vars

(***************************************************************************)
(* What the claims speak of.                                               *)
(***************************************************************************)
\* the compile calls that have returned, oldest first
Finished == history \o (IF call.status \in {"Ok", "Err"} THEN <<call>> ELSE <<>>)

Returned == call.status = "Ok"
ReturnedStream == call.returned[1].instructions
ReturnedPool == call.returned[1].constants

\* the opcode of the instruction that starts at a 0-based offset
OpcodeAt(ins, position) == OpcodeFrom(ins[position + 1])

RECURSIVE CountFrom(_, _, _)
\* the instructions with opcode op among those of ins from offset pos on
CountFrom(ins, pos, op) ==
    IF pos >= Len(ins)
    THEN 0
    ELSE (IF OpcodeAt(ins, pos) = op THEN 1 ELSE 0)
            + CountFrom(ins, pos + InstructionWidth(OpcodeAt(ins, pos)), op)
CountOp(ins, op) == CountFrom(ins, 0, op)

RECURSIVE IfsInExpression(_), IfsInStatement(_), IfsInBlock(_)
\* the conditionals of an AST
IfsInExpression(e) ==
    CASE e.kind = "If" ->
            1 + IfsInExpression(e.condition) + IfsInBlock(e.consequence)
              + (IF e.alternative = None THEN 0 ELSE IfsInBlock(e.alternative[1]))
      [] e.kind = "Infix" -> IfsInExpression(e.left) + IfsInExpression(e.right)
      [] e.kind = "Prefix" -> IfsInExpression(e.right)
      [] OTHER -> 0
IfsInStatement(st) ==
    CASE st.kind = "Expr" -> IfsInExpression(st.expression)
      [] st.kind = "Return" -> IfsInExpression(st.return_value)
      [] OTHER -> 0
IfsInBlock(b) ==
    IF b = <<>> THEN 0 ELSE IfsInStatement(Head(b)) + IfsInBlock(Tail(b))
IfsInNode(node) ==
    CASE node.kind = "Program" -> IfsInBlock(node.statements)
      [] node.kind = "Statement" -> IfsInStatement(node.statement)
      [] node.kind = "Expression" -> IfsInExpression(node.expression)

HasAlternative(c) == c.node.alternative # None

(***************************************************************************)
(* C1: in the stream a successful compile returns, every conditional's     *)
(* jump-if-not-truthy has as operand the offset just after the jump that   *)
(* follows its consequence, and that jump has as operand the stream length *)
(* at the moment the conditional was finished: the offset just after the   *)
(* jump when there is no alternative.  Every conditional of the AST,       *)
(* nested ones included, is among them.                                    *)
(***************************************************************************)
C1_JumpTargets ==
    Returned =>
        /\ Len(iflog) = IfsInNode(call.node)
        /\ \A k \in 1..Len(iflog) :
              LET c == iflog[k]
              IN  /\ OpcodeAt(ReturnedStream, c.jnt_position) = "OpJumpNotTruthy"
                  /\ OpcodeAt(ReturnedStream, c.j_position) = "OpJump"
                  /\ ReadOperand(ReturnedStream, c.jnt_position)
                        = c.j_position + InstructionWidth("OpJump")
                  /\ ReadOperand(ReturnedStream, c.j_position) = c.end
                  /\ c.end <= Len(ReturnedStream)
                  /\ ~HasAlternative(c) => c.end = c.j_position + InstructionWidth("OpJump")
                  /\ HasAlternative(c) => c.end >= c.j_position + InstructionWidth("OpJump")

\* a conditional with an alternative inside another conditional, both compiled
C1_Witness ==
    /\ Returned
    /\ \E k \in 1..Len(iflog), m \in 1..Len(iflog) :
          /\ k < m
          /\ HasAlternative(iflog[k])
          /\ iflog[k].node.alternative[1] # <<>>
          /\ iflog[m].start < iflog[k].start
          /\ iflog[k].end <= iflog[m].end

(***************************************************************************)
(* C2: every conditional compiled adds exactly one jump-if-not-truthy and  *)
(* exactly one jump instruction to the stream, with or without an          *)
(* alternative; without one, the jump's target is the instruction right    *)
(* after the jump.                                                         *)
(***************************************************************************)
C2_OneJumpPair ==
    Returned =>
        /\ CountOp(ReturnedStream, "OpJumpNotTruthy")
              = CountOp(call.before.instructions, "OpJumpNotTruthy") + IfsInNode(call.node)
        /\ CountOp(ReturnedStream, "OpJump")
              = CountOp(call.before.instructions, "OpJump") + IfsInNode(call.node)
        /\ \A k \in 1..Len(iflog) :
              ~HasAlternative(iflog[k]) =>
                  /\ OpcodeAt(ReturnedStream, iflog[k].j_position) = "OpJump"
                  /\ ReadOperand(ReturnedStream, iflog[k].j_position)
                        = iflog[k].j_position + InstructionWidth("OpJump")

\* two conditionals without alternative compiled, one inside the other
C2_Witness ==
    /\ Returned
    /\ IfsInNode(call.node) >= 2
    /\ \A k \in 1..Len(iflog) : ~HasAlternative(iflog[k])
    /\ CountOp(ReturnedStream, "OpJump") >= 2

(***************************************************************************)
(* C3: a block of a conditional that ends with an expression statement has *)
(* lost that statement's pop in the returned stream: the code of the last  *)
(* expression ends where the jump (consequence) or the end of the          *)
(* conditional (alternative) is.  The pops of the earlier expression       *)
(* statements are still there, and an empty block or one that ends with a  *)
(* return statement has lost nothing.                                      *)
(***************************************************************************)
RECURSIVE Laid(_, _, _, _, _)
\* the statements i.. of block lie in ins from offset `from` to offset `to`, one
\* after the other as they were emitted, the last one without its pop
Laid(ins, block, i, from, to) ==
    \E k \in 1..Len(emitted) :
        LET x == emitted[k]
        IN  /\ x.node = block[i]
            /\ x.start = from
            /\ IF i < Len(block)
               THEN /\ block[i].kind = "Expr" => OpcodeAt(ins, x.end - 1) = "OpPop"
                    /\ Laid(ins, block, i + 1, x.end, to)
               ELSE IF block[i].kind = "Expr"
                    THEN /\ x.end = to + 1
                         /\ \E m \in 1..Len(emitted) :
                               /\ emitted[m].node = block[i].expression
                               /\ emitted[m].start = from
                               /\ emitted[m].end = to
                    ELSE x.end = to
BlockLaid(ins, block, from, to) ==
    IF block = <<>> THEN from = to ELSE Laid(ins, block, 1, from, to)

C3_TrailingPopRemoved ==
    Returned =>
        \A k \in 1..Len(iflog) :
            LET c == iflog[k]
                after_jnt == c.jnt_position + InstructionWidth("OpJumpNotTruthy")
                after_jump == c.j_position + InstructionWidth("OpJump")
            IN  /\ BlockLaid(ReturnedStream, c.node.consequence, after_jnt, c.j_position)
                /\ OpcodeAt(ReturnedStream, c.j_position) = "OpJump"
                /\ HasAlternative(c) =>
                      BlockLaid(ReturnedStream, c.node.alternative[1], after_jump, c.end)

\* a consequence of two expression statements and an alternative that ends with one
C3_Witness ==
    /\ Returned
    /\ \E k \in 1..Len(iflog) :
          LET c == iflog[k]
          IN  /\ Len(c.node.consequence) = 2
              /\ c.node.consequence[1].kind = "Expr"
              /\ c.node.consequence[2].kind = "Expr"
              /\ HasAlternative(c)
              /\ c.node.alternative[1] # <<>>
              /\ c.node.alternative[1][Len(c.node.alternative[1])].kind = "Expr"
              /\ OpcodeAt(ReturnedStream, c.j_position - InstructionWidth("OpConst")) = "OpConst"

(***************************************************************************)
(* C4: compiled from a new Compiler each, the expressions `a < b` and      *)
(* `b > a` have the same outcome: both fail, or both return the same bytes *)
(* and the same constant pool in the same order.                           *)
(***************************************************************************)
IsLessThan(node) ==
    /\ node.kind = "Expression"
    /\ node.expression.kind = "Infix"
    /\ node.expression.operator = "<"
Swapped(node) ==
    ExpressionNode(InfixExpression(">", node.expression.right, node.expression.left))

C4_LessThanIsSwappedGreaterThan ==
    \A i \in 1..Len(Finished), j \in 1..Len(Finished) :
        LET x == Finished[i]
            y == Finished[j]
        IN  (/\ x.fresh
             /\ y.fresh
             /\ IsLessThan(x.node)
             /\ y.node = Swapped(x.node))
            => /\ x.status = y.status
               /\ x.returned = y.returned

\* `a < b` and `b > a` both compiled, a being a conditional and b not
C4_Witness ==
    \E i \in 1..Len(Finished), j \in 1..Len(Finished) :
        /\ Finished[i].fresh
        /\ Finished[j].fresh
        /\ IsLessThan(Finished[i].node)
        /\ Finished[j].node = Swapped(Finished[i].node)
        /\ Finished[i].node.expression.left.kind = "If"
        /\ Finished[i].node.expression.right.kind = "Prefix"
        /\ Finished[i].status = "Ok"
        /\ Finished[j].status = "Ok"

(***************************************************************************)
(* C5: compile(Node::Expression(n)) of an integer literal n on a new       *)
(* Compiler returns a stream that is one push-constant instruction and a   *)
(* pool of exactly one entry, n, at the index the instruction names.       *)
(***************************************************************************)
IsIntegerNode(node) ==
    /\ node.kind = "Expression"
    /\ node.expression.kind = "Literal"
    /\ node.expression.literal = "Integer"

SinglePushConstant(x) ==
    /\ x.status = "Ok"
    /\ Len(x.returned[1].instructions) = InstructionWidth("OpConst")
    /\ OpcodeAt(x.returned[1].instructions, 0) = "OpConst"
    /\ Len(x.returned[1].constants) = 1
    /\ ReadOperand(x.returned[1].instructions, 0) = 0
    /\ x.returned[1].constants[ReadOperand(x.returned[1].instructions, 0) + 1]
          = Integer(x.node.expression.value)

C5_IntegerLiteralOnNewCompiler ==
    \A i \in 1..Len(Finished) :
        (IsIntegerNode(Finished[i].node) /\ Finished[i].fresh)
            => SinglePushConstant(Finished[i])

\* the claim as written: of any compile call, also one on a Compiler that has compiled before
C5_IntegerLiteralAnyCompiler ==
    \A i \in 1..Len(Finished) :
        IsIntegerNode(Finished[i].node) => SinglePushConstant(Finished[i])

\* the literal 2 compiled on a new Compiler
C5_Witness ==
    \E i \in 1..Len(Finished) :
        /\ IsIntegerNode(Finished[i].node)
        /\ Finished[i].fresh
        /\ Finished[i].node.expression.value = 2
        /\ Finished[i].status = "Ok"

(***************************************************************************)
(* C6: an expression statement is compiled to the instructions of its      *)
(* expression and one pop after them; a return statement to the            *)
(* instructions of its value and nothing else, so that `return e` and the  *)
(* expression e on its own compile to the same stream.                     *)
(***************************************************************************)
C6_StatementStreams ==
    /\ \A k \in 1..Len(emitted) :
          LET x == emitted[k]
          IN  /\ x.node.kind = "Expr" =>
                    /\ k > 1
                    /\ emitted[k - 1].node = x.node.expression
                    /\ emitted[k - 1].start = x.start
                    /\ x.end = emitted[k - 1].end + InstructionWidth("OpPop")
              /\ x.node.kind = "Return" =>
                    /\ k > 1
                    /\ emitted[k - 1].node = x.node.return_value
                    /\ emitted[k - 1].start = x.start
                    /\ x.end = emitted[k - 1].end
    /\ \A i \in 1..Len(Finished), j \in 1..Len(Finished) :
          LET x == Finished[i]
              y == Finished[j]
          IN  (/\ x.fresh
               /\ y.fresh
               /\ x.node.kind = "Statement"
               /\ y.node.kind = "Expression")
              => /\ (/\ x.node.statement.kind = "Expr"
                     /\ y.node.expression = x.node.statement.expression)
                    => /\ x.status = y.status
                       /\ x.status = "Ok" =>
                             /\ x.returned[1].instructions
                                   = y.returned[1].instructions \o make("OpPop", <<>>)
                             /\ x.returned[1].constants = y.returned[1].constants
                 /\ (/\ x.node.statement.kind = "Return"
                     /\ y.node.expression = x.node.statement.return_value)
                    => /\ x.status = y.status
                       /\ x.returned = y.returned

\* `return e` and e both compiled, e a conditional with expression statements inside
C6_Witness ==
    \E i \in 1..Len(Finished), j \in 1..Len(Finished) :
        /\ Finished[i].fresh
        /\ Finished[j].fresh
        /\ Finished[i].node.kind = "Statement"
        /\ Finished[i].node.statement.kind = "Return"
        /\ Finished[i].node.statement.return_value.kind = "If"
        /\ Finished[j].node = ExpressionNode(Finished[i].node.statement.return_value)
        /\ Finished[i].status = "Ok"
        /\ Finished[j].status = "Ok"
        /\ \E k \in 1..Len(emitted) : emitted[k].node.kind = "Expr"

(***************************************************************************)
(* C7: in the returned stream the instructions of every operand of a       *)
(* prefix or infix expression come before the operator's opcode, which is  *)
(* the last instruction of the expression; for every infix operator but    *)
(* `<` the left operand's instructions come before the right operand's;    *)
(* the statements of a program lie in the stream in program order.  On a   *)
(* new Compiler `1 + 2;` gives push-constant 0, push-constant 1, add, pop  *)
(* and the pool [1, 2].                                                    *)
(***************************************************************************)
\* entries a and b of the log are the code of e1 and then of e2, from offset `from` to offset `to`
InOrder(a, e1, b, e2, from, to) ==
    /\ emitted[a].node = e1
    /\ emitted[b].node = e2
    /\ emitted[a].start = from
    /\ emitted[a].end = emitted[b].start
    /\ emitted[a].start < emitted[a].end
    /\ emitted[b].start < emitted[b].end
    /\ emitted[b].end = to

\* the statements compile itself has compiled, in the order they were finished
TopStatements ==
    SelectSeq(emitted, LAMBDA x : x.depth = 2 /\ x.node.kind \in {"Expr", "Return"})

OnePlusTwo == ProgramNode(<<ExprStatement(InfixExpression("+", One, Two))>>)

C7_OperandsBeforeOperator ==
    /\ Returned =>
          /\ \A k \in 1..Len(emitted) :
                LET x == emitted[k]
                    e == x.node
                IN  /\ e.kind = "Infix" =>
                          /\ OpcodeAt(ReturnedStream, x.end - 1) = InfixOpcode(e.operator)
                          /\ \E a \in 1..(k - 1), b \in 1..(k - 1) :
                                \/ InOrder(a, e.left, b, e.right, x.start, x.end - 1)
                                \/ /\ e.operator = "<"
                                   /\ InOrder(b, e.right, a, e.left, x.start, x.end - 1)
                    /\ e.kind = "Prefix" =>
                          /\ OpcodeAt(ReturnedStream, x.end - 1) = PrefixOpcode(e.operator)
                          /\ \E b \in 1..(k - 1) :
                                /\ emitted[b].node = e.right
                                /\ emitted[b].start = x.start
                                /\ emitted[b].start < emitted[b].end
                                /\ emitted[b].end = x.end - 1
          /\ call.node.kind = "Program" =>
                /\ Len(TopStatements) = Len(call.node.statements)
                /\ \A i \in 1..Len(TopStatements) :
                      /\ TopStatements[i].node = call.node.statements[i]
                      /\ TopStatements[i].start =
                            IF i = 1 THEN Len(call.before.instructions)
                                     ELSE TopStatements[i - 1].end
                      /\ i = Len(TopStatements) =>
                            TopStatements[i].end = Len(ReturnedStream)
    /\ \A i \in 1..Len(Finished) :
          (Finished[i].node = OnePlusTwo /\ Finished[i].fresh) =>
              /\ Finished[i].status = "Ok"
              /\ Finished[i].returned[1].instructions =
                    make("OpConst", <<0>>) \o make("OpConst", <<1>>)
                        \o make("OpAdd", <<>>) \o make("OpPop", <<>>)
              /\ Finished[i].returned[1].constants = <<Integer(1), Integer(2)>>

\* `a + b` compiled with a conditional as a and a comparison as b
C7_Witness ==
    /\ Returned
    /\ \E k \in 1..Len(emitted) :
          /\ emitted[k].node.kind = "Infix"
          /\ emitted[k].node.operator = "+"
          /\ emitted[k].node.left.kind = "If"
          /\ emitted[k].node.right.kind = "Infix"
          /\ OpcodeAt(ReturnedStream, emitted[k].end - 1) = "OpAdd"

(***************************************************************************)
(* C8: compile returns an error, and no Bytecode, exactly when the AST     *)
(* holds an unsupported construct: an assignment, a float, string or array *)
(* literal, an identifier, a function literal, a call, an index            *)
(* expression, a prefix operator other than ! and -, an infix operator     *)
(* other than + - * / > < == !=.                                           *)
(***************************************************************************)
RECURSIVE UnsupportedInExpression(_), UnsupportedInStatement(_), UnsupportedInBlock(_)
UnsupportedInExpression(e) ==
    CASE e.kind = "If" ->
            \/ UnsupportedInExpression(e.condition)
            \/ UnsupportedInBlock(e.consequence)
            \/ e.alternative # None /\ UnsupportedInBlock(e.alternative[1])
      [] e.kind = "Infix" ->
            \/ e.operator \notin {"+", "-", "*", "/", ">", "<", "==", "!="}
            \/ UnsupportedInExpression(e.left)
            \/ UnsupportedInExpression(e.right)
      [] e.kind = "Prefix" ->
            \/ e.operator \notin {"!", "-"}
            \/ UnsupportedInExpression(e.right)
      [] e.kind = "Literal" -> e.literal \notin {"Integer", "Boolean"}
      [] OTHER -> TRUE
UnsupportedInStatement(st) ==
    CASE st.kind = "Expr" -> UnsupportedInExpression(st.expression)
      [] st.kind = "Return" -> UnsupportedInExpression(st.return_value)
      [] OTHER -> TRUE
UnsupportedInBlock(b) ==
    \E i \in 1..Len(b) : UnsupportedInStatement(b[i])
UnsupportedInNode(node) ==
    CASE node.kind = "Program" -> UnsupportedInBlock(node.statements)
      [] node.kind = "Statement" -> UnsupportedInStatement(node.statement)
      [] node.kind = "Expression" -> UnsupportedInExpression(node.expression)

C8_ErrorIffUnsupported ==
    \A i \in 1..Len(Finished) :
        LET x == Finished[i]
        IN  /\ x.status = "Err" <=> UnsupportedInNode(x.node)
            /\ x.status = "Err" => x.returned = None
            /\ x.status = "Ok" => x.returned # None

\* an error from an assignment that is the last statement of an alternative
C8_Witness ==
    /\ call.status = "Err"
    /\ call.node.kind = "Expression"
    /\ call.node.expression.kind = "If"
    /\ ~UnsupportedInBlock(call.node.expression.consequence)
    /\ call.node.expression.alternative # None
    /\ Len(call.node.expression.alternative[1]) = 2
    /\ call.node.expression.alternative[1][2] = Assignment
    /\ ~UnsupportedInStatement(call.node.expression.alternative[1][1])

(***************************************************************************)
(* C9: after compile has returned an error, the stream and the pool that   *)
(* bytecode() shows are those of before the call.                          *)
(***************************************************************************)
C9_NoPartialMutation ==
    (call.status = "Err" /\ ~fresh) => bytecode = call.before

(***************************************************************************)
(* C10: two compile calls of the same AST, each on a new Compiler, have    *)
(* the same outcome: the same bytes and the same pool in the same order.   *)
(***************************************************************************)
C10_SameAstSameBytecode ==
    \A i \in 1..Len(Finished), j \in 1..Len(Finished) :
        LET x == Finished[i]
            y == Finished[j]
        IN  (x.fresh /\ y.fresh /\ x.node = y.node)
            => /\ x.status = y.status
               /\ x.returned = y.returned

\* a conditional with integer literals compiled twice, each time on a new Compiler
C10_Witness ==
    \E i \in 1..Len(Finished), j \in 1..Len(Finished) :
        /\ i < j
        /\ Finished[i].fresh
        /\ Finished[j].fresh
        /\ Finished[i].node = Finished[j].node
        /\ Finished[i].status = "Ok"
        /\ Finished[j].status = "Ok"
        /\ IfsInNode(Finished[i].node) >= 1
        /\ Len(Finished[j].returned[1].constants) >= 2

(***************************************************************************)
(* Decoding a stream into its instructions.                                *)
(***************************************************************************)
RECURSIVE StartsFrom(_, _)
\* the offsets at which the instructions of ins start, decoding from offset pos
StartsFrom(ins, pos) ==
    IF pos >= Len(ins)
    THEN {}
    ELSE {pos} \cup StartsFrom(ins, pos + InstructionWidth(OpcodeAt(ins, pos)))
InstructionStarts(ins) == StartsFrom(ins, 0)

\* the jump and jump-if-not-truthy instructions of a stream
JumpsOf(ins) ==
    {p \in InstructionStarts(ins) : OpcodeAt(ins, p) \in {"OpJump", "OpJumpNotTruthy"}}

(***************************************************************************)
(* C11: in the stream a successful compile returns, the operand of every   *)
(* jump and jump-if-not-truthy is not the placeholder and is an offset of  *)
(* the stream: the start of one of its instructions or, for a conditional  *)
(* that ends the stream, the stream's length (the offset just after the    *)
(* last instruction).                                                      *)
(***************************************************************************)
C11_JumpOperandsAreStartsOrEnd ==
    Returned =>
        \A p \in JumpsOf(ReturnedStream) :
            /\ ReadOperand(ReturnedStream, p) # Placeholder
            /\ ReadOperand(ReturnedStream, p)
                  \in InstructionStarts(ReturnedStream) \cup {Len(ReturnedStream)}

\* C11 as stated: every such operand is the start offset of an instruction of
\* the stream, and none is the placeholder
C11_JumpOperandsAreStarts ==
    Returned =>
        \A p \in JumpsOf(ReturnedStream) :
            /\ ReadOperand(ReturnedStream, p) # Placeholder
            /\ ReadOperand(ReturnedStream, p) \in InstructionStarts(ReturnedStream)

\* a returned stream with a jump to one of its instructions and a jump to its end
C11_Witness ==
    /\ Returned
    /\ \E p \in JumpsOf(ReturnedStream) :
          ReadOperand(ReturnedStream, p) \in InstructionStarts(ReturnedStream)
    /\ \E p \in JumpsOf(ReturnedStream) :
          ReadOperand(ReturnedStream, p) = Len(ReturnedStream)
    /\ Len(iflog) >= 2

RECURSIVE WholeFrom(_, _)
\* from offset pos on, ins is whole instructions: an opcode byte and all the
\* operand bytes of that opcode, one instruction after the other up to the end
WholeFrom(ins, pos) ==
    IF pos = Len(ins)
    THEN TRUE
    ELSE /\ pos < Len(ins)
         /\ ins[pos + 1] < Len(Opcodes)
         /\ LET next == pos + InstructionWidth(OpcodeAt(ins, pos))
            IN  next <= Len(ins) /\ WholeFrom(ins, next)
WholeInstructions(ins) == WholeFrom(ins, 0)

RECURSIVE SameInstructions(_, _, _)
\* from offset pos on, every instruction of old starts at the same offset in new,
\* with the same opcode byte, and old ends at an instruction boundary of new
SameInstructions(old, new, pos) ==
    IF pos >= Len(old)
    THEN pos = Len(old)
    ELSE /\ new[pos + 1] = old[pos + 1]
         /\ SameInstructions(old, new, pos + InstructionWidth(OpcodeAt(old, pos)))

\* a step of the compiler on its stream leaves the instructions that were there:
\* it appends, or overwrites bytes that are not opcode bytes, or cuts exactly
\* the last instruction off
KeepsInstructions ==
    \/ instructions' = instructions
    \/ /\ Len(instructions') >= Len(instructions)
       /\ SameInstructions(instructions, instructions', 0)
    \/ /\ Len(instructions') < Len(instructions)
       /\ instructions' = SubSeq(instructions, 1, Len(instructions'))
       /\ SameInstructions(instructions', instructions, 0)
       /\ Len(instructions') + InstructionWidth(OpcodeAt(instructions, Len(instructions')))
             = Len(instructions)

(***************************************************************************)
(* C12: in every state of the compiler, after every emission, operand      *)
(* patch and retraction, the stream is a concatenation of whole            *)
(* instructions, and no step on a Compiler removes or overwrites part of   *)
(* an instruction other than the one it patches or retracts.  (A step to a *)
(* new Compiler starts a new stream.)                                      *)
(***************************************************************************)
C12_WholeInstructions ==
    /\ [](WholeInstructions(instructions))
    /\ [][fresh' \/ KeepsInstructions]_vars

\* a stream cut by a retraction and patched afterwards, with a placeholder in it
C12_Witness ==
    /\ AtExpression("If", 8)
    /\ top.node.alternative # None
    /\ last_instruction # None
    /\ last_instruction[1].opcode = "OpConst"
    /\ last_instruction = previous_instruction
    /\ ReadOperand(instructions, top.j_position) = Placeholder
    /\ ReadOperand(instructions, top.jnt_position) = top.j_position + 3

\* compile_expression is about to compile an integer literal: the one place
\* where add_constant is called
AddsConstant == AtExpression("Literal", 0) /\ top.node.literal = "Integer"

\* what a step of the compiler does to the pool: an add appends the value and
\* the index it returns, the operand of the push-constant emitted with it, is
\* the length of the pool before the add; any other step leaves the pool alone
PoolStep ==
    IF AddsConstant
    THEN /\ constants' = Append(constants, Integer(top.node.value))
         /\ OpcodeAt(instructions', Len(instructions)) = "OpConst"
         /\ ReadOperand(instructions', Len(instructions)) = Len(constants)
    ELSE constants' = constants

\* the push-constant of every integer literal the running call has compiled
\* names, in the pool as it is now, the value of that literal
OperandsNameTheirValues ==
    \A k \in 1..Len(emitted) :
        LET x == emitted[k]
        IN  (x.node.kind = "Literal" /\ x.node.literal = "Integer") =>
                /\ OpcodeAt(instructions, x.start) = "OpConst"
                /\ ReadOperand(instructions, x.start) < Len(constants)
                /\ constants[ReadOperand(instructions, x.start) + 1]
                      = Integer(x.node.value)

(***************************************************************************)
(* C13: the constant pool is append-only and does not deduplicate.  Every  *)
(* add appends its value, equal to an entry or not, and returns the pool   *)
(* length before the call; no other step of a Compiler changes the pool;   *)
(* so every push-constant operand keeps naming the value it was emitted    *)
(* for.  (A step to a new Compiler starts a new pool.)                     *)
(***************************************************************************)
C13_PoolAppendOnly ==
    /\ [](~fresh => OperandsNameTheirValues)
    /\ [][fresh' \/ PoolStep]_vars

\* two equal literals compiled by one call, at two indices, on a Compiler whose
\* pool had an entry before the call
C13_Witness ==
    /\ Returned
    /\ ~call.fresh
    /\ \E a \in 1..Len(emitted), b \in 1..Len(emitted) :
          /\ emitted[a].node = One
          /\ emitted[b].node = One
          /\ ReadOperand(instructions, emitted[a].start)
                < ReadOperand(instructions, emitted[b].start)
          /\ ReadOperand(instructions, emitted[a].start) >= 1

RECURSIVE IntegersInExpression(_), IntegersInStatement(_), IntegersInBlock(_)
\* the values of the integer literals of an AST, in the order compile reaches them
IntegersInExpression(e) ==
    CASE e.kind = "Literal" ->
            IF e.literal = "Integer" THEN <<Integer(e.value)>> ELSE <<>>
      [] e.kind = "Prefix" -> IntegersInExpression(e.right)
      [] e.kind = "Infix" ->
            IntegersInExpression(OperandOrder(e.operator, e.left, e.right)[1])
                \o IntegersInExpression(OperandOrder(e.operator, e.left, e.right)[2])
      [] e.kind = "If" ->
            IntegersInExpression(e.condition)
                \o IntegersInBlock(e.consequence)
                \o (IF e.alternative = None THEN <<>> ELSE IntegersInBlock(e.alternative[1]))
      [] OTHER -> <<>>
IntegersInStatement(st) ==
    CASE st.kind = "Expr" -> IntegersInExpression(st.expression)
      [] st.kind = "Return" -> IntegersInExpression(st.return_value)
      [] OTHER -> <<>>
IntegersInBlock(b) ==
    IF b = <<>> THEN <<>> ELSE IntegersInStatement(Head(b)) \o IntegersInBlock(Tail(b))
IntegersInNode(node) ==
    CASE node.kind = "Program" -> IntegersInBlock(node.statements)
      [] node.kind = "Statement" -> IntegersInStatement(node.statement)
      [] node.kind = "Expression" -> IntegersInExpression(node.expression)

\* compile_expression is about to compile a boolean literal
CompilesBoolean == AtExpression("Literal", 0) /\ top.node.literal = "Boolean"

\* the step that compiles a boolean literal appends boolean-true or
\* boolean-false and leaves the pool as it is
BooleanStep ==
    CompilesBoolean =>
        /\ constants' = constants
        /\ instructions' =
              instructions \o <<OpcodeByte(IF top.node.truth THEN "OpTrue" ELSE "OpFalse")>>

\* the statement `true;`, alone or as a program
TrueStatement ==
    {StatementNode(ExprStatement(True)), ProgramNode(<<ExprStatement(True)>>)}

(***************************************************************************)
(* C14: after a successful compile on a new Compiler the pool holds one    *)
(* entry per integer literal of the AST, in the order in which compile     *)
(* reached them (the right operand of `<` first); compiling a boolean      *)
(* literal emits boolean-true or boolean-false and leaves the pool         *)
(* unchanged; `true;` on a new Compiler gives boolean-true, discard and an *)
(* empty pool.                                                             *)
(***************************************************************************)
C14_PoolIsTheIntegerLiterals ==
    /\ []((Returned /\ call.fresh) =>
            /\ ReturnedPool = IntegersInNode(call.node)
            /\ call.node \in TrueStatement =>
                  /\ ReturnedStream = <<OpcodeByte("OpTrue"), OpcodeByte("OpPop")>>
                  /\ ReturnedPool = <<>>)
    /\ [][BooleanStep]_vars

\* a program with a boolean literal and two integer literals, compiled on a new
\* Compiler
C14_Witness ==
    /\ Returned
    /\ call.fresh
    /\ \E k \in 1..Len(emitted) : emitted[k].node = True
    /\ ReturnedPool = <<Integer(1), Integer(2)>>
    /\ CountOp(ReturnedStream, "OpTrue") = 1

\* what the holder of a Bytecode reads in it: the clones made by bytecode(), or,
\* had the Bytecode been given the Compiler's own buffers, those buffers as
\* they are now
Held(b) ==
    IF "shared" \in DOMAIN b
    THEN [instructions |-> instructions, constants |-> constants]
    ELSE [instructions |-> b.instructions, constants |-> b.constants]

\* the Bytecode values handed out so far, as their holders read them: the
\* bytecode() taken at the start of every call and what every successful call
\* returned
HandedOut ==
    [i \in 1..Len(Finished) |->
        <<Held(Finished[i].before),
          IF Finished[i].status = "Ok" THEN Held(Finished[i].returned[1]) ELSE None>>]

(***************************************************************************)
(* C15: a Bytecode returned by compile or by bytecode() is never changed   *)
(* afterwards: every later step, of the same call, of a later compile call *)
(* on the same Compiler, or to a new Compiler, leaves the stream and the   *)
(* pool of every Bytecode handed out before as they were.                  *)
(***************************************************************************)
C15_ReturnedBytecodeIsNotMutated ==
    [][/\ Len(HandedOut') >= Len(HandedOut)
       /\ \A i \in 1..Len(HandedOut) : HandedOut'[i] = HandedOut[i]
       /\ call.status = "running" => Held(call.before)' = Held(call.before)]_vars

\* a second successful call on the same Compiler, with a retraction and patches,
\* after a first one had returned a Bytecode
C15_Witness ==
    /\ Len(history) = 1
    /\ history[1].status = "Ok"
    /\ Returned
    /\ ~call.fresh
    /\ Len(iflog) >= 1
    /\ Len(instructions) > Len(history[1].returned[1].instructions)
    /\ Len(constants) > Len(history[1].returned[1].constants)
    /\ history[1].returned[1].instructions # <<>>

RECURSIVE LinesFrom(_, _)
\* one line per instruction of ins from offset pos on: the offset at which the
\* instruction starts and the mnemonic of its opcode
LinesFrom(ins, pos) ==
    IF pos >= Len(ins)
    THEN <<>>
    ELSE <<[offset |-> Pad4(pos), mnemonic |-> OpcodeAt(ins, pos)]>>
            \o LinesFrom(ins, pos + InstructionWidth(OpcodeAt(ins, pos)))

(***************************************************************************)
(* C16: the rendering of a returned Bytecode has exactly one line per      *)
(* instruction of its stream, in stream order: the offset at which the     *)
(* instruction starts, as four zero-padded digits, and the mnemonic of its *)
(* opcode; operand bytes give no line.                                     *)
(***************************************************************************)
C16_OneLinePerInstruction ==
    (call.status = "Ok" /\ call.rendered # None) =>
        call.rendered[1] = LinesFrom(ReturnedStream, 0)

(***************************************************************************)
(* The operand stack of the executor that runs a stream.                   *)
(***************************************************************************)
\* by how much an instruction changes the depth of the operand stack
StackEffect(op) ==
    CASE op \in {"OpConst", "OpTrue", "OpFalse"} -> 1
      [] op \in {"OpPop", "OpJumpNotTruthy"} -> -1
      [] op \in {"OpAdd", "OpSub", "OpMul", "OpDiv", "OpGreaterThan",
                 "OpEqual", "OpNotEqual"} -> -1
      [] OTHER -> 0

RECURSIVE Depths(_, _, _, _)
\* the depths, relative to d at offset pc, at which the paths from pc reach the
\* offset end: a jump is followed, a jump-if-not-truthy is taken and not taken
Depths(ins, pc, end, d) ==
    IF pc >= end
    THEN {d}
    ELSE LET op == OpcodeAt(ins, pc)
         IN  CASE op = "OpJump" -> Depths(ins, ReadOperand(ins, pc), end, d)
               [] op = "OpJumpNotTruthy" ->
                     Depths(ins, pc + InstructionWidth(op), end, d + StackEffect(op))
                        \cup Depths(ins, ReadOperand(ins, pc), end, d + StackEffect(op))
               [] OTHER -> Depths(ins, pc + InstructionWidth(op), end, d + StackEffect(op))

\* where the two paths of a compiled conditional c end, counted from the depth
\* after its jump-if-not-truthy has taken the condition
TruthyDepths(ins, c) ==
    Depths(ins, c.jnt_position + InstructionWidth("OpJumpNotTruthy"), c.end, 0)
NotTruthyDepths(ins, c) ==
    Depths(ins, ReadOperand(ins, c.jnt_position), c.end, 0)

RECURSIVE LeavesValue(_), BlockLeavesValue(_)
\* the code of e pushes on every path: every conditional in e has an
\* alternative and both its blocks leave a value
LeavesValue(e) ==
    CASE e.kind = "Literal" -> TRUE
      [] e.kind = "Prefix" -> LeavesValue(e.right)
      [] e.kind = "Infix" -> LeavesValue(e.left) /\ LeavesValue(e.right)
      [] e.kind = "If" ->
            /\ LeavesValue(e.condition)
            /\ e.alternative # None
            /\ BlockLeavesValue(e.consequence)
            /\ BlockLeavesValue(e.alternative[1])
      [] OTHER -> FALSE
\* a block that is not empty and whose statements' expressions all leave a value
BlockLeavesValue(b) ==
    /\ b # <<>>
    /\ \A i \in 1..Len(b) :
          CASE b[i].kind = "Expr" -> LeavesValue(b[i].expression)
            [] b[i].kind = "Return" -> LeavesValue(b[i].return_value)
            [] OTHER -> FALSE

(***************************************************************************)
(* C17: in a conditional without alternative the path of a condition that  *)
(* is not truthy pushes nothing, no placeholder value, and ends at the     *)
(* depth it started with; the path of a truthy condition ends at least one *)
(* deeper when the consequence block is not empty and holds no conditional *)
(* that lacks an alternative or has an empty block.                        *)
(***************************************************************************)
C17_NoPlaceholderOnNotTruthyPath ==
    Returned =>
        \A k \in 1..Len(iflog) :
            LET c == iflog[k]
            IN  ~HasAlternative(c) =>
                    /\ NotTruthyDepths(ReturnedStream, c) = {0}
                    /\ BlockLeavesValue(c.node.consequence) =>
                          \A d \in TruthyDepths(ReturnedStream, c) : d >= 1

\* C17 as stated: for every conditional without alternative the two paths end
\* at different depths
C17_PathsEndAtDifferentDepths ==
    Returned =>
        \A k \in 1..Len(iflog) :
            LET c == iflog[k]
            IN  ~HasAlternative(c) =>
                    TruthyDepths(ReturnedStream, c) \cap NotTruthyDepths(ReturnedStream, c) = {}

\* a conditional without alternative whose consequence, a return and an
\* expression statement, leaves two values, and one whose consequence holds a
\* conditional with alternative
C17_Witness ==
    /\ Returned
    /\ \E k \in 1..Len(iflog) :
          /\ ~HasAlternative(iflog[k])
          /\ BlockLeavesValue(iflog[k].node.consequence)
          /\ \/ 2 \in TruthyDepths(ReturnedStream, iflog[k])
             \/ IfsInBlock(iflog[k].node.consequence) >= 1

\* the If arm is about to patch an operand: the position it patches, or -1
PatchPosition ==
    CASE AtExpression("If", 5) -> top.jnt_position
      [] AtExpression("If", 6) /\ top.node.alternative = None -> top.jnt_position
      [] AtExpression("If", 8) -> top.j_position
      [] OTHER -> -1

\* the step that patches the operand of the instruction at `position` changes
\* the operand bytes of that instruction to the new operand and nothing else
PatchStep ==
    LET position == PatchPosition
    IN  position >= 0 =>
            /\ Len(instructions') = Len(instructions)
            /\ \A k \in 1..Len(instructions) :
                  (k - 1 < position + 1 \/ k - 1 >= position + 3)
                      => instructions'[k] = instructions[k]
            /\ OpcodeAt(instructions', position) = OpcodeAt(instructions, position)
            /\ ReadOperand(instructions', position) = Len(instructions)
            /\ InstructionStarts(instructions') = InstructionStarts(instructions)
            /\ constants' = constants
            /\ last_instruction' = last_instruction
            /\ previous_instruction' = previous_instruction

(***************************************************************************)
(* C18: patching the operand of the instruction at an offset changes only  *)
(* the operand bytes of that instruction: the stream length, the opcode    *)
(* byte at the offset, every byte of every other instruction, the pool and *)
(* the last and previous records are as before.                            *)
(***************************************************************************)
C18_PatchChangesOnlyTheOperand ==
    [][PatchStep]_vars

\* the jump-if-not-truthy of an outer conditional has just been patched, with
\* the instructions of an inner conditional and its own jump after it
C18_Witness ==
    /\ AtExpression("If", 6)
    /\ ReadOperand(instructions, top.jnt_position) = Len(instructions)
    /\ top.j_position > top.jnt_position + 3
    /\ CountFrom(instructions, top.jnt_position + 3, "OpJump") >= 2
    /\ top.jnt_position > 1

\* the instruction the next step of the compiler emits: its opcode and operands,
\* or <<>> when the next step emits nothing
EmitsNow ==
    CASE At("compile_statement", 1) /\ top.node.kind = "Expr" -> <<"OpPop">>
      [] AtExpression("If", 1) -> <<"OpJumpNotTruthy", Placeholder>>
      [] AtExpression("If", 4) -> <<"OpJump", Placeholder>>
      [] AtExpression("Infix", 1) /\ InfixOpcode(top.node.operator) # "unimplemented" ->
            <<InfixOpcode(top.node.operator)>>
      [] AtExpression("Prefix", 1) /\ PrefixOpcode(top.node.operator) # "unimplemented" ->
            <<PrefixOpcode(top.node.operator)>>
      [] AtExpression("Literal", 0) /\ top.node.literal = "Boolean" ->
            <<IF top.node.truth THEN "OpTrue" ELSE "OpFalse">>
      [] AtExpression("Literal", 0) /\ top.node.literal = "Integer" ->
            <<"OpConst", Len(constants)>>
      [] OTHER -> <<>>

\* the step that emits: the encoded instruction is appended to the stream as it
\* was, the offset returned is the old length, the last record is the new
\* instruction and the previous record is the old last record
EmitStep ==
    EmitsNow # <<>> =>
        /\ instructions' = instructions \o make(Head(EmitsNow), Tail(EmitsNow))
        /\ last_instruction' =
              Some([opcode |-> Head(EmitsNow), position |-> Len(instructions)])
        /\ previous_instruction' = last_instruction
        /\ AtExpression("If", 1) => top'.jnt_position = Len(instructions)
        /\ AtExpression("If", 4) => top'.j_position = Len(instructions)

(***************************************************************************)
(* C19: emit appends the encoded instruction at the end of the stream and  *)
(* changes no earlier byte, returns the stream length before the call as   *)
(* the offset of the instruction, sets the last record to that opcode and  *)
(* offset, and the previous record to the last record as it was.           *)
(***************************************************************************)
C19_EmitAppendsAndRecords ==
    [][EmitStep]_vars

\* the jump of a conditional has just been emitted after a retraction: the two
\* records differ, the previous one is the value the consequence left
C19_Witness ==
    /\ AtExpression("If", 5)
    /\ last_instruction = Some([opcode |-> "OpJump", position |-> top.j_position])
    /\ previous_instruction # None
    /\ previous_instruction[1].opcode = "OpConst"
    /\ previous_instruction[1].position = top.j_position - InstructionWidth("OpConst")
    /\ top.j_position + InstructionWidth("OpJump") = Len(instructions)
    /\ ReadOperand(instructions, top.j_position) = Placeholder
    /\ ~call.fresh

\* the step removes bytes from the end of the stream of a Compiler: it retracts
Retracts == Len(instructions') < Len(instructions) /\ ~fresh'

\* the record r is that of the instruction that is physically last in ins
IsPhysicallyLast(r, ins) ==
    /\ r.position \in InstructionStarts(ins)
    /\ OpcodeAt(ins, r.position) = r.opcode
    /\ r.position + InstructionWidth(r.opcode) = Len(ins)

\* a retraction: the last record is a discard and the discard is the final
\* instruction of the stream; exactly its byte is removed; the record restored
\* as last is not a discard and is that of the instruction now final
RetractionStep ==
    Retracts =>
        /\ AtExpression("If", 3) \/ AtExpression("If", 7)
        /\ last_instruction # None
        /\ last_instruction[1].opcode = "OpPop"
        /\ IsPhysicallyLast(last_instruction[1], instructions)
        /\ instructions' = SubSeq(instructions, 1, Len(instructions) - InstructionWidth("OpPop"))
        /\ last_instruction' # None
        /\ last_instruction'[1].opcode # "OpPop"
        /\ IsPhysicallyLast(last_instruction'[1], instructions')

\* once the If arm is past the end of a block, retraction made or not, the last
\* record is not a discard: nothing is left for a second retraction
NoSecondRetraction ==
    (AtExpression("If", 4) \/ AtExpression("If", 8)) =>
        ~(last_instruction # None /\ last_instruction[1].opcode = "OpPop")

(***************************************************************************)
(* C20: a retraction happens only at the end of a block of a conditional,  *)
(* when the last record is a discard and that discard is physically the    *)
(* final instruction of the stream; the record restored as last is not a   *)
(* discard and is the record of the instruction that is now final; so at   *)
(* most one discard is retracted per block, and never a second one before  *)
(* the next emission.                                                      *)
(***************************************************************************)
C20_RetractionOfTheFinalDiscard ==
    /\ [][RetractionStep]_vars
    /\ []NoSecondRetraction

\* the discard after a conditional that is the last statement of a block has
\* just been retracted: the last and the previous record are both the record
\* of that conditional's jump
C20_Witness ==
    /\ AtExpression("If", 4)
    /\ Len(stack) >= 2
    /\ last_instruction # None
    /\ last_instruction = previous_instruction
    /\ last_instruction[1].opcode = "OpJump"
    /\ IsPhysicallyLast(last_instruction[1], instructions)
    /\ Len(iflog) >= 1

====
